---- MODULE Spec2Model ----
(***************************************************************************)
(* POSIX back end of ruby-serialport (ext/native/posix_serialport_impl.c). *)
(* The kernel side of one serial device (termios, the Linux serial_struct, *)
(* the Darwin IOSSIOSPEED override, the modem status word, the descriptor  *)
(* table) and the Ruby object's "custom_baud" instance variable are the    *)
(* state; every exported function is one action.                           *)
(***************************************************************************)
EXTENDS Integers, Sequences, FiniteSets, TLC

\* ------------------------------------------------------------------------
\* Bounds of the model
\* ------------------------------------------------------------------------

\* open attempts explored in one behaviour
MaxOpens == 2

\* ------------------------------------------------------------------------
\* Ruby values: an optional FIXNUM is the empty set (nil) or a singleton
\* ------------------------------------------------------------------------

Qnil == {}

INT2FIX(n) == {n}

NIL_P(v) == v = {}

FIX2INT(v) == CHOOSE n \in v : TRUE

\* ------------------------------------------------------------------------
\* Constants of serialport.h
\* ------------------------------------------------------------------------

NONE == 0

SOFT == 1

HARD == 2

EVEN == 1

ODD == 2

\* v & b for a single-bit mask b and v >= 0
BitSet(v, b) == (v \div b) % 2 = 1

\* ------------------------------------------------------------------------
\* Build variants (the #if defined(OS_...) branches)
\* ------------------------------------------------------------------------

\* OS_POSIX stands for a build where neither OS_LINUX nor OS_DARWIN is defined
\* and <termios.h> is strictly POSIX: no CRTSCTS, no speed above B38400
Platforms == {"OS_LINUX", "OS_DARWIN", "OS_POSIX"}

HAVE_FLOWCONTROL_HARD(os) == os \in {"OS_LINUX", "OS_DARWIN"}

HasCustomBaud(os) == os \in {"OS_LINUX", "OS_DARWIN"}

\* the rates of the switch that are compiled unconditionally
BaseRates == {50, 75, 110, 134, 150, 200, 300, 600, 1200, 1800, 2400, 4800, 9600, 19200, 38400}

\* the rates behind #ifdef B57600 / B76800 / B115200 / B230400
ExtraRates(os) == CASE os = "OS_LINUX" -> {57600, 115200, 230400}
                    [] os = "OS_DARWIN" -> {57600, 76800, 115200, 230400}
                    [] OTHER -> {}

StandardRates(os) == BaseRates \cup ExtraRates(os)

\* the speed_t constant Bnnn of <termios.h>: Linux and System V use small codes
\* (B50..B38400 = 1..15, Linux B57600.. = 010001..); Darwin's Bnnn is the
\* number nnn itself
LinuxCode(r) == CASE r = 50 -> 1 [] r = 75 -> 2 [] r = 110 -> 3 [] r = 134 -> 4
                  [] r = 150 -> 5 [] r = 200 -> 6 [] r = 300 -> 7 [] r = 600 -> 8
                  [] r = 1200 -> 9 [] r = 1800 -> 10 [] r = 2400 -> 11
                  [] r = 4800 -> 12 [] r = 9600 -> 13 [] r = 19200 -> 14
                  [] r = 38400 -> 15 [] r = 57600 -> 4097 [] r = 115200 -> 4098
                  [] r = 230400 -> 4099 [] OTHER -> 0

B(os, r) == IF os = "OS_DARWIN" THEN r ELSE LinuxCode(r)

\* ------------------------------------------------------------------------
\* struct termios
\* ------------------------------------------------------------------------

IXFLAGS == {"IXON", "IXOFF", "IXANY"}

\* the line discipline a tty has before the library touches it
DeviceDefaults(os) == { [ispeed |-> B(os, s), ospeed |-> B(os, s), csize |-> "CS8",
                          cstopb |-> FALSE, parenb |-> p, parodd |-> FALSE,
                          crtscts |-> FALSE, clocal |-> FALSE, cread |-> TRUE,
                          hupcl |-> TRUE, iflag |-> i,
                          oflag |-> {"OPOST", "ONLCR"}, lflag |-> {"ICANON", "ECHO", "ISIG"},
                          vtime |-> 0, vmin |-> 1]
                        : s \in {9600}, p \in BOOLEAN,
                          i \in {{"ICRNL", "IXON"}, {"ICRNL"}} }

\* sp_create_impl's raw baseline
Baseline(params) == [params EXCEPT !.oflag = {}, !.lflag = {},
                                   !.iflag = @ \cap IXFLAGS,
                                   !.clocal = TRUE, !.cread = TRUE, !.hupcl = FALSE]

\* ------------------------------------------------------------------------
\* State
\* ------------------------------------------------------------------------

VARIABLES
    os,           \* the build variant
    termios,      \* the device's line-control structure, as the kernel holds it
    serial_info,  \* the driver's struct serial_struct (TIOCGSERIAL/TIOCSSERIAL)
    custom_baud,  \* the object's "custom_baud" instance variable (Qnil until set)
    status,       \* the modem status word (TIOCMGET/TIOCMSET), a set of TIOCM_ bits
    fds,          \* the process's open descriptors of the device
    sp,           \* the descriptor held by the SerialPort object, Qnil before open
    opens,        \* open attempts so far
    last          \* the last call: its name, arguments, outcome and kernel writes

vars == <<os, termios, serial_info, custom_baud, status, fds, sp, opens, last>>

kernel == <<termios, serial_info, status>>

\* the outcome "no exception"
OK == "ok"

Call(op, args, err, sys, ret) == [op |-> op, args |-> args, err |-> err, sys |-> sys, ret |-> ret]

\* ------------------------------------------------------------------------
\* Descriptor Opener: sp_create_impl
\* ------------------------------------------------------------------------

ports == <<"/dev/ttyS0", "/dev/ttyS1", "/dev/ttyS2", "/dev/ttyS3", "/dev/ttyS4", "/dev/ttyS5", "/dev/ttyS6", "/dev/ttyS7">>

\* sizeof(ports) / sizeof(ports[0])
NumPorts == Len(ports)

\* what ports[num_port] yields: the entry, or for an index past the array
\* whatever the stack holds there (any string, or no readable memory at all)
GARBAGE == "<garbage>"

PortsRead(num_port) == IF num_port < NumPorts THEN {ports[num_port + 1]}
                       ELSE {GARBAGE, "SIGSEGV"} \cup {ports[i] : i \in 1..NumPorts}

\* the range check of the T_FIXNUM case
IllegalPortNumber(num_port) == num_port < 0 \/ num_port > NumPorts

\* the lowest free descriptor, as open(2) allocates it
NewFd == CHOOSE fd \in 3..(3 + MaxOpens) : fd \notin fds /\ \A g \in 3..(fd - 1) : g \in fds

\* what the environment makes of one open: the first step that fails
OpenFaults == {"none", "open", "isatty", "tcgetattr", "tcsetattr"}

\* the path with the close forgotten when the baseline cannot be written
OpenPortLeaking(fault) ==
    CASE fault = "open" -> [err |-> "Errno(open)", sys |-> <<>>]
      [] fault = "isatty" -> [err |-> "not a serial port", sys |-> <<"open", "close">>]
      [] fault = "tcgetattr" -> [err |-> "Errno(tcgetattr)", sys |-> <<"open", "fcntl", "close">>]
      [] fault = "tcsetattr" -> [err |-> "Errno(tcsetattr)", sys |-> <<"open", "fcntl">>]
      [] OTHER -> [err |-> OK, sys |-> <<"open", "fcntl", "tcsetattr">>]

\* the path from open(2) to the return: the error raised and the system calls
\* that were made on the way, in order
OpenPort(fault) ==
    CASE fault = "open" -> [err |-> "Errno(open)", sys |-> <<>>]
      [] fault = "isatty" -> [err |-> "not a serial port", sys |-> <<"open", "close">>]
      [] fault = "tcgetattr" -> [err |-> "Errno(tcgetattr)", sys |-> <<"open", "fcntl", "close">>]
      [] fault = "tcsetattr" -> [err |-> "Errno(tcsetattr)", sys |-> <<"open", "fcntl", "close">>]
      [] OTHER -> [err |-> OK, sys |-> <<"open", "fcntl", "tcsetattr">>]

\* the descriptor table after the system calls sys, fd being what open returned
RECURSIVE FdsAfter(_, _, _)
FdsAfter(table, fd, sys) ==
    IF sys = <<>> THEN table
    ELSE FdsAfter(CASE Head(sys) = "open" -> table \cup {fd}
                    [] Head(sys) = "close" -> table \ {fd}
                    [] OTHER -> table,
                  fd, Tail(sys))

Contains(sys, call) == \E i \in 1..Len(sys) : sys[i] = call

Selectors == [kind : {"T_FIXNUM"}, v : -1..(NumPorts + 1)]
             \cup [kind : {"T_STRING"}, v : {"/dev/ttyUSB0"}]
             \cup [kind : {"T_FLOAT"}, v : {0}]

\* the switch on TYPE(_port): the port name, or the exception raised
PortOf(sel, read) ==
    CASE sel.kind = "T_FIXNUM" /\ IllegalPortNumber(sel.v) -> [err |-> "illegal port number", port |-> Qnil]
      [] sel.kind = "T_FIXNUM" /\ ~IllegalPortNumber(sel.v) ->
           IF read = "SIGSEGV" THEN [err |-> "SIGSEGV", port |-> {read}] ELSE [err |-> OK, port |-> {read}]
      [] sel.kind = "T_STRING" -> [err |-> OK, port |-> {sel.v}]
      [] OTHER -> [err |-> "wrong argument type", port |-> Qnil]

Open(sel, read, fault) ==
    /\ sp = Qnil
    /\ opens < MaxOpens
    /\ sel.kind = "T_FIXNUM" /\ ~IllegalPortNumber(sel.v) => read \in PortsRead(sel.v)
    /\ LET p == PortOf(sel, read)
           o == IF p.err = OK THEN OpenPort(fault) ELSE [err |-> p.err, sys |-> <<>>]
           fd == NewFd
       IN /\ last' = Call("open", sel, o.err, o.sys,
                          [port |-> p.port, fd |-> IF o.err = OK THEN {fd} ELSE Qnil])
          /\ fds' = FdsAfter(fds, fd, o.sys)
          /\ termios' = IF Contains(o.sys, "tcsetattr") THEN Baseline(termios) ELSE termios
          /\ sp' = IF o.err = OK THEN {fd} ELSE Qnil
    /\ opens' = opens + 1
    /\ UNCHANGED <<os, serial_info, custom_baud, status>>

\* ------------------------------------------------------------------------
\* Custom Baud Strategy
\* ------------------------------------------------------------------------

\* <linux/serial.h>: ASYNC_SPD_CUST is ASYNC_SPD_HI | ASYNC_SPD_VHI
ASYNC_SPD_CUST == {"ASYNC_SPD_HI", "ASYNC_SPD_VHI"}

ASYNC_SPD_MASK == {"ASYNC_SPD_HI", "ASYNC_SPD_VHI", "ASYNC_SPD_SHI"}

\* the ceiling of the default case of the rate switch
MaxCustomBaud == 24000000

\* One call in progress: params is the function's struct termios, cb its
\* custom_baud_rate, kt and serial the kernel's state, cache the instance
\* variable, err the exception raised so far, sys the kernel writes so far.
Raise(c, msg) == [c EXCEPT !.err = msg]

Wrote(c, call) == [c EXCEPT !.sys = Append(@, call)]

\* OS_LINUX set_custom_baud_rate(fd, baud)
set_custom_baud_rate_linux(c, baud, fault) ==
    IF baud <= 0 THEN Raise(c, "invalid baud rate")
    ELSE IF fault = "TIOCGSERIAL" THEN Raise(c, "unable to execute TIOCGSERIAL ioctl for custom baud")
    ELSE IF baud > c.serial.baud_base THEN Raise(c, "custom baud rate is too high")
    ELSE IF fault = "TIOCSSERIAL" THEN Raise(c, "unable to set custom baud rate")
    ELSE Wrote([c EXCEPT !.serial.flags = (@ \ ASYNC_SPD_MASK) \cup ASYNC_SPD_CUST,
                         !.serial.custom_divisor = c.serial.baud_base \div baud],
               "TIOCSSERIAL")

\* OS_LINUX clear_custom_baud_rate(fd)
clear_custom_baud_rate_linux(c, fault) ==
    IF fault = "TIOCGSERIAL" THEN Raise(c, "unable to execute TIOCGSERIAL ioctl for custom baud")
    ELSE IF c.serial.flags \cap ASYNC_SPD_CUST = {} /\ c.serial.custom_divisor = 0 THEN c
    ELSE IF fault = "TIOCSSERIAL" THEN Raise(c, "unable to set custom baud rate")
    ELSE Wrote([c EXCEPT !.serial.flags = @ \ ASYNC_SPD_CUST,
                         !.serial.custom_divisor = 0],
               "TIOCSSERIAL")

\* OS_LINUX get_custom_baud_rate(fd)
get_custom_baud_rate_linux(info, fault) ==
    IF fault = "TIOCGSERIAL" THEN 0
    ELSE IF info.flags \cap ASYNC_SPD_CUST = {} THEN 0
    ELSE IF info.custom_divisor > 0 THEN info.baud_base \div info.custom_divisor
    ELSE 0

\* OS_DARWIN set_custom_baud_rate(self, fd, baud); the driver's IOSSIOSPEED
\* handler programs the rate and stores it as the tty's input and output speed
set_custom_baud_rate_darwin(c, baud, fault) ==
    IF fault = "IOSSIOSPEED" THEN Raise(c, "unable to set custom baud rate")
    ELSE Wrote([c EXCEPT !.kt.ispeed = baud, !.kt.ospeed = baud, !.cache = INT2FIX(baud)],
               "IOSSIOSPEED")

\* OS_DARWIN clear_custom_baud_rate(self, &params)
clear_custom_baud_rate_darwin(c) ==
    [c EXCEPT !.cache = INT2FIX(0),
              !.params.ispeed = B("OS_DARWIN", 9600),
              !.params.ospeed = B("OS_DARWIN", 9600)]

\* OS_DARWIN get_custom_baud_rate(self)
get_custom_baud_rate_darwin(cache) == IF NIL_P(cache) THEN 0 ELSE FIX2INT(cache)

\* ------------------------------------------------------------------------
\* Attribute Codec: sp_set_modem_params_impl
\* ------------------------------------------------------------------------

\* A call is positional (argv, argc = Len(argv)) or carries one hash; a key
\* that is absent from the hash reads as nil (rb_hash_aref).
NoHash == [baud |-> Qnil, data_bits |-> Qnil, stop_bits |-> Qnil, parity |-> Qnil,
           flow_control |-> Qnil, read_timeout |-> Qnil]

Positional(argv) == [use_hash |-> FALSE, argv |-> argv, hash |-> NoHash]

WithHash(h) == [use_hash |-> TRUE, argv |-> <<>>, hash |-> h]

argc(call) == IF call.use_hash THEN 1 ELSE Len(call.argv)

\* _data_rate .. _read_timeout as the function resolves them
data_rate_arg(call) == IF call.use_hash THEN call.hash.baud ELSE call.argv[1]

data_bits_arg(call) == IF call.use_hash THEN call.hash.data_bits
                       ELSE IF argc(call) >= 2 THEN call.argv[2] ELSE INT2FIX(8)

\* the positional default applied to the hash form too
stop_bits_arg_defaulting(call) ==
    LET v == IF call.use_hash THEN call.hash.stop_bits
             ELSE IF argc(call) >= 3 THEN call.argv[3] ELSE Qnil
    IN IF NIL_P(v) THEN INT2FIX(1) ELSE v

stop_bits_arg(call) == IF call.use_hash THEN call.hash.stop_bits
                       ELSE IF argc(call) >= 3 THEN call.argv[3] ELSE INT2FIX(1)

\* the default taken without looking at the data bits
parity_arg_none(call, params) == IF call.use_hash THEN call.hash.parity
                                 ELSE IF argc(call) >= 4 THEN call.argv[4]
                                 ELSE INT2FIX(NONE)

parity_arg(call, params) == IF call.use_hash THEN call.hash.parity
                            ELSE IF argc(call) >= 4 THEN call.argv[4]
                            ELSE IF params.csize = "CS8" THEN INT2FIX(NONE) ELSE INT2FIX(EVEN)

flow_control_arg(call) == IF call.use_hash THEN call.hash.flow_control
                          ELSE IF argc(call) >= 5 THEN call.argv[5] ELSE Qnil

read_timeout_arg(call) == IF call.use_hash THEN call.hash.read_timeout
                          ELSE IF argc(call) >= 6 THEN call.argv[6] ELSE Qnil

\* cfsetispeed + cfsetospeed
cfsetspeed(c, speed) == [c EXCEPT !.params.ispeed = speed, !.params.ospeed = speed]

\* lines 427-435: clear the driver's custom rate (Linux), then set the speed
ClearAndSetSpeed(c, speed, fault, variant) ==
    LET d == IF variant = "OS_LINUX" THEN clear_custom_baud_rate_linux(c, fault) ELSE c
    IN IF d.err # OK THEN d ELSE cfsetspeed(d, speed)

\* lines 366-435
SetDataRate(c, call, fault, variant) ==
    LET v == data_rate_arg(call) IN
    IF c.err # OK \/ NIL_P(v) THEN c
    ELSE IF FIX2INT(v) <= 0 THEN Raise(c, "invalid baud rate")
    ELSE IF FIX2INT(v) \in StandardRates(variant)
         THEN ClearAndSetSpeed(c, B(variant, FIX2INT(v)), fault, variant)
    ELSE IF ~HasCustomBaud(variant) THEN Raise(c, "unknown baud rate")
    ELSE IF FIX2INT(v) > MaxCustomBaud THEN Raise([c EXCEPT !.cb = FIX2INT(v)], "baud rate too high")
    ELSE ClearAndSetSpeed([c EXCEPT !.cb = FIX2INT(v)], B(variant, 38400), fault, variant)

\* lines 437-469
SetDataBits(c, call) ==
    LET v == data_bits_arg(call) IN
    IF c.err # OK \/ NIL_P(v) THEN c
    ELSE CASE FIX2INT(v) = 5 -> [c EXCEPT !.params.csize = "CS5"]
           [] FIX2INT(v) = 6 -> [c EXCEPT !.params.csize = "CS6"]
           [] FIX2INT(v) = 7 -> [c EXCEPT !.params.csize = "CS7"]
           [] FIX2INT(v) = 8 -> [c EXCEPT !.params.csize = "CS8"]
           [] OTHER -> Raise(c, "unknown character size")

\* lines 471-496
SetStopBits(c, call) ==
    LET v == stop_bits_arg(call) IN
    IF c.err # OK \/ NIL_P(v) THEN c
    ELSE CASE FIX2INT(v) = 1 -> [c EXCEPT !.params.cstopb = FALSE]
           [] FIX2INT(v) = 2 -> [c EXCEPT !.params.cstopb = TRUE]
           [] OTHER -> Raise(c, "unknown number of stop bits")

\* lines 498-532
SetParity(c, call) ==
    LET v == IF c.err # OK THEN Qnil ELSE parity_arg(call, c.params) IN
    IF c.err # OK \/ NIL_P(v) THEN c
    ELSE CASE FIX2INT(v) = EVEN -> [c EXCEPT !.params.parenb = TRUE, !.params.parodd = FALSE]
           [] FIX2INT(v) = ODD -> [c EXCEPT !.params.parenb = TRUE, !.params.parodd = TRUE]
           [] FIX2INT(v) = NONE -> [c EXCEPT !.params.parenb = FALSE]
           [] OTHER -> Raise(c, "unknown parity")

\* the flow-control block shared by sp_set_modem_params_impl (548-578) and
\* sp_set_flow_control_impl (759-790)
ApplyFlowControl(c, flow_control, variant) ==
    IF flow_control \notin {NONE, SOFT, HARD, HARD + SOFT} THEN Raise(c, "invalid flow control")
    ELSE IF BitSet(flow_control, HARD) /\ ~HAVE_FLOWCONTROL_HARD(variant)
         THEN Raise(c, "Hardware flow control not supported")
    ELSE LET d == IF HAVE_FLOWCONTROL_HARD(variant)
                  THEN [c EXCEPT !.params.crtscts = BitSet(flow_control, HARD)]
                  ELSE c
         IN IF BitSet(flow_control, SOFT)
            THEN [d EXCEPT !.params.iflag = @ \cup IXFLAGS]
            ELSE [d EXCEPT !.params.iflag = @ \ IXFLAGS]

\* lines 534-578
SetFlowControl(c, call, variant) ==
    LET v == flow_control_arg(call) IN
    IF c.err # OK \/ NIL_P(v) THEN c
    ELSE ApplyFlowControl(c, FIX2INT(v), variant)

\* c_cc[] is an array of cc_t (unsigned char)
cc_t(n) == n % 256

\* the block with the timeout truncated to the unit below
ApplyReadTimeoutTruncating(c, timeout) ==
    IF timeout < 0 THEN [c EXCEPT !.params.vtime = 0, !.params.vmin = 0]
    ELSE IF timeout = 0 THEN [c EXCEPT !.params.vtime = 0, !.params.vmin = 1]
    ELSE [c EXCEPT !.params.vtime = cc_t(timeout \div 100), !.params.vmin = 0]

\* the timeout block shared by sp_set_modem_params_impl (595-609) and
\* sp_set_read_timeout_impl (846-860)
ApplyReadTimeout(c, timeout) ==
    IF timeout < 0 THEN [c EXCEPT !.params.vtime = 0, !.params.vmin = 0]
    ELSE IF timeout = 0 THEN [c EXCEPT !.params.vtime = 0, !.params.vmin = 1]
    ELSE [c EXCEPT !.params.vtime = cc_t((timeout + 50) \div 100), !.params.vmin = 0]

\* lines 580-609
SetReadTimeout(c, call) ==
    LET v == read_timeout_arg(call) IN
    IF c.err # OK \/ NIL_P(v) THEN c
    ELSE ApplyReadTimeout(c, FIX2INT(v))

\* tcsetattr(fd, TCSANOW, &params)
tcsetattr(c, fault) ==
    IF c.err # OK THEN c
    ELSE IF fault = "tcsetattr" THEN Raise(c, "Errno(tcsetattr)")
    ELSE Wrote([c EXCEPT !.kt = c.params], "tcsetattr")

\* lines 618-628
ApplyCustomBaud(c, fault, variant) ==
    IF c.err # OK \/ c.cb = 0 THEN c
    ELSE CASE variant = "OS_DARWIN" -> set_custom_baud_rate_darwin(c, c.cb, fault)
           [] variant = "OS_LINUX" -> set_custom_baud_rate_linux(c, c.cb, fault)
           [] OTHER -> c

\* lines 355-364: tcgetattr, and on Darwin the read and reset of the cache
ReadAttributes(c, fault, variant) ==
    IF fault = "tcgetattr" THEN Raise(c, "Errno(tcgetattr)")
    ELSE IF variant = "OS_DARWIN"
         THEN clear_custom_baud_rate_darwin([c EXCEPT !.cb = get_custom_baud_rate_darwin(c.cache)])
         ELSE c

\* the state a call starts from
Enter == [params |-> termios, cb |-> 0, kt |-> termios, serial |-> serial_info,
          cache |-> custom_baud, err |-> OK, sys |-> <<>>]

\* sp_set_modem_params_impl from the tcgetattr on
set_modem_params(c, call, fault, variant) ==
    ApplyCustomBaud(
      tcsetattr(
        SetReadTimeout(
          SetFlowControl(
            SetParity(
              SetStopBits(
                SetDataBits(
                  SetDataRate(ReadAttributes(c, fault, variant), call, fault, variant),
                  call),
                call),
              call),
            call, variant),
          call),
        fault),
      fault, variant)

\* what a call leaves behind
Leave(op, args, c) ==
    /\ termios' = c.kt
    /\ serial_info' = c.serial
    /\ custom_baud' = c.cache
    /\ last' = Call(op, args, c.err, c.sys, Qnil)

Configure(call, fault) ==
    /\ sp # Qnil
    /\ IF argc(call) = 0
       THEN Leave("set_modem_params", call, Enter)
       ELSE Leave("set_modem_params", call, set_modem_params(Enter, call, fault, os))
    /\ UNCHANGED <<os, status, fds, sp, opens>>

\* ------------------------------------------------------------------------
\* Attribute Codec: get_modem_params_impl
\* ------------------------------------------------------------------------

\* what an uninitialised int of the caller's struct modem_params may hold
Indeterminate == {0, 9600, 2147483647}

\* the switch on cfgetospeed(&params): the values mp->data_rate may end with
data_rate_of(params, info, cache, fault, variant) ==
    IF \E r \in StandardRates(variant) : params.ospeed = B(variant, r)
    THEN {r \in StandardRates(variant) : params.ospeed = B(variant, r)}
    ELSE CASE variant = "OS_LINUX" -> {get_custom_baud_rate_linux(info, fault)}
           [] variant = "OS_DARWIN" -> {get_custom_baud_rate_darwin(cache)}
           [] OTHER -> Indeterminate

data_bits_of(params) == CASE params.csize = "CS5" -> 5
                          [] params.csize = "CS6" -> 6
                          [] params.csize = "CS7" -> 7
                          [] params.csize = "CS8" -> 8
                          [] OTHER -> 0

stop_bits_of(params) == IF params.cstopb THEN 2 ELSE 1

parity_of(params) == IF ~params.parenb THEN NONE
                     ELSE IF params.parodd THEN ODD
                     ELSE EVEN

\* also sp_get_flow_control_impl
flow_control_of(params, variant) ==
    (IF HAVE_FLOWCONTROL_HARD(variant) /\ params.crtscts THEN HARD ELSE 0)
    + (IF params.iflag \cap IXFLAGS # {} THEN SOFT ELSE 0)

\* also sp_get_read_timeout_impl
read_timeout_of(params) == IF params.vtime = 0 /\ params.vmin = 0 THEN -1
                           ELSE params.vtime * 100

\* the struct modem_params the call can fill in
get_modem_params(params, info, cache, fault, variant) ==
    { [data_rate |-> r, data_bits |-> data_bits_of(params), stop_bits |-> stop_bits_of(params),
       parity |-> parity_of(params), flow_control |-> flow_control_of(params, variant),
       read_timeout |-> read_timeout_of(params)]
      : r \in data_rate_of(params, info, cache, fault, variant) }

\* inspect() of the current state when no system call fails
InspectNow == get_modem_params(termios, serial_info, custom_baud, "none", os)

Inspect(fault) ==
    /\ sp # Qnil
    /\ IF fault = "tcgetattr"
       THEN last' = Call("get_modem_params", Qnil, "Errno(tcgetattr)", <<>>, Qnil)
       ELSE \E mp \in get_modem_params(termios, serial_info, custom_baud, fault, os) :
              last' = Call("get_modem_params", Qnil, OK, <<>>, mp)
    /\ UNCHANGED <<os, termios, serial_info, custom_baud, status, fds, sp, opens>>

\* ------------------------------------------------------------------------
\* Flow-control and read-timeout conveniences
\* ------------------------------------------------------------------------

\* tcgetattr(fd, &params) of the single-field setters
tcgetattr(c, fault) == IF fault = "tcgetattr" THEN Raise(c, "Errno(tcgetattr)") ELSE c

\* sp_set_flow_control_impl
set_flow_control(c, val, fault, variant) ==
    LET d == tcgetattr(c, fault) IN
    IF d.err # OK THEN d ELSE tcsetattr(ApplyFlowControl(d, val, variant), fault)

SetFlowControlCall(val, fault) ==
    /\ sp # Qnil
    /\ Leave("set_flow_control", val, set_flow_control(Enter, val, fault, os))
    /\ UNCHANGED <<os, status, fds, sp, opens>>

GetFlowControl(fault) ==
    /\ sp # Qnil
    /\ last' = IF fault = "tcgetattr"
               THEN Call("get_flow_control", Qnil, "Errno(tcgetattr)", <<>>, Qnil)
               ELSE Call("get_flow_control", Qnil, OK, <<>>, flow_control_of(termios, os))
    /\ UNCHANGED <<os, termios, serial_info, custom_baud, status, fds, sp, opens>>

\* sp_set_read_timeout_impl
set_read_timeout(c, timeout, fault) ==
    LET d == tcgetattr(c, fault) IN
    IF d.err # OK THEN d ELSE tcsetattr(ApplyReadTimeout(d, timeout), fault)

SetReadTimeoutCall(timeout, fault) ==
    /\ sp # Qnil
    /\ Leave("set_read_timeout", timeout, set_read_timeout(Enter, timeout, fault))
    /\ UNCHANGED <<os, status, fds, sp, opens>>

GetReadTimeout(fault) ==
    /\ sp # Qnil
    /\ last' = IF fault = "tcgetattr"
               THEN Call("get_read_timeout", Qnil, "Errno(tcgetattr)", <<>>, Qnil)
               ELSE Call("get_read_timeout", Qnil, OK, <<>>, read_timeout_of(termios))
    /\ UNCHANGED <<os, termios, serial_info, custom_baud, status, fds, sp, opens>>

\* ------------------------------------------------------------------------
\* Control-Line Interface
\* ------------------------------------------------------------------------

TIOCM == {"TIOCM_RTS", "TIOCM_DTR", "TIOCM_CTS", "TIOCM_DSR", "TIOCM_CD", "TIOCM_RI"}

\* the lines the host drives; the other four are inputs the kernel only reports
Outputs == {"TIOCM_RTS", "TIOCM_DTR"}

LineFaults == {"none", "TIOCMGET", "TIOCMSET"}

\* get_line_signals_helper_impl's decoding of the status word
line_signals(word) == [rts |-> IF "TIOCM_RTS" \in word THEN 1 ELSE 0,
                       dtr |-> IF "TIOCM_DTR" \in word THEN 1 ELSE 0,
                       cts |-> IF "TIOCM_CTS" \in word THEN 1 ELSE 0,
                       dsr |-> IF "TIOCM_DSR" \in word THEN 1 ELSE 0,
                       dcd |-> IF "TIOCM_CD" \in word THEN 1 ELSE 0,
                       ri |-> IF "TIOCM_RI" \in word THEN 1 ELSE 0]

GetLineSignals(fault) ==
    /\ sp # Qnil
    /\ last' = IF fault = "TIOCMGET"
               THEN Call("get_line_signals", Qnil, "Errno(ioctl)", <<>>, Qnil)
               ELSE Call("get_line_signals", Qnil, OK, <<>>, line_signals(status))
    /\ UNCHANGED <<os, termios, serial_info, custom_baud, status, fds, sp, opens>>

\* ioctl(fd, TIOCMSET, &word): the kernel drives RTS and DTR as the word says
\* and keeps reporting the input lines as the wire has them
TIOCMSET(current, word) == (word \cap Outputs) \cup (current \ Outputs)

\* the word built from the targeted bit alone
set_signal_clobbering(word, set, sig, fault) ==
    IF fault = "TIOCMGET" THEN [err |-> "Errno(ioctl)", sys |-> <<>>, word |-> word]
    ELSE IF set \notin {0, 1} THEN [err |-> "invalid value", sys |-> <<>>, word |-> word]
    ELSE IF fault = "TIOCMSET" THEN [err |-> "Errno(ioctl)", sys |-> <<>>, word |-> word]
    ELSE [err |-> OK, sys |-> <<"TIOCMSET">>,
          word |-> IF set = 0 THEN {} ELSE {sig}]

\* set_signal_impl: the word written and the error raised
set_signal(word, set, sig, fault) ==
    IF fault = "TIOCMGET" THEN [err |-> "Errno(ioctl)", sys |-> <<>>, word |-> word]
    ELSE IF set \notin {0, 1} THEN [err |-> "invalid value", sys |-> <<>>, word |-> word]
    ELSE IF fault = "TIOCMSET" THEN [err |-> "Errno(ioctl)", sys |-> <<>>, word |-> word]
    ELSE [err |-> OK, sys |-> <<"TIOCMSET">>,
          word |-> IF set = 0 THEN word \ {sig} ELSE word \cup {sig}]

\* sp_set_rts_impl, sp_set_dtr_impl
SetSignal(sig, val, fault) ==
    /\ sp # Qnil
    /\ LET r == set_signal(status, val, sig, fault)
       IN /\ status' = IF r.err = OK THEN TIOCMSET(status, r.word) ELSE status
          /\ last' = Call("set_signal", [sig |-> sig, val |-> val], r.err, r.sys, Qnil)
    /\ UNCHANGED <<os, termios, serial_info, custom_baud, fds, sp, opens>>

\* the peer or the modem changes one of the input lines
LineChange(line) ==
    /\ sp # Qnil
    /\ line \in TIOCM \ Outputs
    /\ status' = IF line \in status THEN status \ {line} ELSE status \cup {line}
    /\ UNCHANGED <<os, termios, serial_info, custom_baud, fds, sp, opens, last>>

\* ------------------------------------------------------------------------
\* Inputs explored
\* ------------------------------------------------------------------------

\* the base clock the driver reports in serial_struct.baud_base (a 16550 UART)
BaudBases == {115200}

Opt(S) == {Qnil} \cup {INT2FIX(n) : n \in S}

\* invalid, standard, standard behind #ifdef, custom and exact, custom and
\* inexact, custom above the base clock, above the ceiling
RateArgs == Opt({0, 9600, 115200, 28800, 100000, 250001, 24000001})

DataBitsArgs == Opt({5, 6, 7, 8, 9})

StopBitsArgs == Opt({1, 2, 3})

ParityArgs == Opt({NONE, EVEN, ODD, 3})

FlowControlArgs == Opt({NONE, SOFT, HARD, HARD + SOFT, 4})

Timeouts == {-1, 0, 1, 49, 50, 100, 250, 1000, 25550}

\* the system calls that exist in the build variant
FaultsOf(variant) == {"none", "tcgetattr", "tcsetattr"}
                     \cup (IF variant = "OS_LINUX" THEN {"TIOCGSERIAL", "TIOCSSERIAL"} ELSE {})
                     \cup (IF variant = "OS_DARWIN" THEN {"IOSSIOSPEED"} ELSE {})

\* calls that set the rate, alone or with a data-bits value
RateCalls == {WithHash([NoHash EXCEPT !.baud = r, !.data_bits = d]) : r \in RateArgs, d \in Opt({9})}
             \cup {Positional(<<r>>) : r \in RateArgs}
             \cup {Positional(<<r, d>>) : r \in RateArgs, d \in Opt({9})}

\* calls that set the framing fields, with the rate absent or standard
FramingCalls == {WithHash([NoHash EXCEPT !.data_bits = d, !.parity = p]) : d \in DataBitsArgs, p \in ParityArgs}
                \cup {WithHash([NoHash EXCEPT !.stop_bits = s, !.flow_control = f]) : s \in StopBitsArgs, f \in FlowControlArgs}
                \cup {Positional(<<>>), Positional(<<INT2FIX(9600)>>)}
                \cup {Positional(<<INT2FIX(9600), d>>) : d \in DataBitsArgs}
                \cup {Positional(<<Qnil, d, s>>) : d \in Opt({7, 8}), s \in StopBitsArgs}
                \cup {Positional(<<INT2FIX(9600), d, INT2FIX(1), p>>) : d \in Opt({7, 8}), p \in ParityArgs}
                \cup {Positional(<<INT2FIX(9600), INT2FIX(8), Qnil, Qnil, f>>) : f \in FlowControlArgs}

\* calls that set the read timeout
TimeoutCalls == {WithHash([NoHash EXCEPT !.read_timeout = INT2FIX(t)]) : t \in Timeouts}
                \cup {Positional(<<Qnil, Qnil, Qnil, Qnil, Qnil, INT2FIX(t)>>) : t \in Timeouts}

ConfigureCalls == RateCalls \cup FramingCalls \cup TimeoutCalls

SignalValues == {-1, 0, 1, 2}

\* ------------------------------------------------------------------------
\* Specifications
\* ------------------------------------------------------------------------

\* the device before the process opens it
Init ==
    /\ os \in Platforms
    /\ termios \in DeviceDefaults(os)
    /\ serial_info \in [flags : {{}}, custom_divisor : {0}, baud_base : BaudBases]
    /\ custom_baud = Qnil
    /\ status = {}
    /\ fds = {}
    /\ sp = Qnil
    /\ opens = 0
    /\ last = Call("start", Qnil, OK, <<>>, Qnil)

\* the state SerialPort.new("/dev/ttyUSB0") returns in
InitOpened ==
    /\ os \in Platforms
    /\ termios \in {Baseline(t) : t \in DeviceDefaults(os)}
    /\ serial_info \in [flags : {{}}, custom_divisor : {0}, baud_base : BaudBases]
    /\ custom_baud = Qnil
    /\ status = {}
    /\ fds = {3}
    /\ sp = {3}
    /\ opens = 1
    /\ last = Call("open", [kind |-> "T_STRING", v |-> "/dev/ttyUSB0"], OK,
                   <<"open", "fcntl", "tcsetattr">>, [port |-> {"/dev/ttyUSB0"}, fd |-> {3}])

Next ==
    \/ \E sel \in Selectors, read \in PortsRead(NumPorts), fault \in OpenFaults : Open(sel, read, fault)
    \/ \E call \in ConfigureCalls, fault \in FaultsOf(os) : Configure(call, fault)
    \/ \E fault \in FaultsOf(os) : Inspect(fault)
    \/ \E val \in {NONE, SOFT, HARD, HARD + SOFT, 4}, fault \in FaultsOf(os) : SetFlowControlCall(val, fault)
    \/ \E fault \in FaultsOf(os) : GetFlowControl(fault)
    \/ \E t \in Timeouts, fault \in FaultsOf(os) : SetReadTimeoutCall(t, fault)
    \/ \E fault \in FaultsOf(os) : GetReadTimeout(fault)
    \/ \E sig \in Outputs, val \in SignalValues, fault \in LineFaults : SetSignal(sig, val, fault)
    \/ \E fault \in LineFaults : GetLineSignals(fault)
    \/ \E line \in TIOCM : LineChange(line)

\* the whole program
Spec == Init /\ [][Next]_vars

\* the Descriptor Opener alone
NextOpen == \E sel \in Selectors, read \in PortsRead(NumPorts), fault \in OpenFaults : Open(sel, read, fault)

SpecOpen == Init /\ [][NextOpen]_vars

\* rate changes on an open port
NextRate ==
    \/ \E call \in RateCalls, fault \in FaultsOf(os) : Configure(call, fault)
    \/ \E fault \in FaultsOf(os) : Inspect(fault)

SpecRate == InitOpened /\ [][NextRate]_vars

\* framing and flow-control changes on an open port, every system call succeeding
NextFraming ==
    \/ \E call \in FramingCalls : Configure(call, "none")
    \/ Inspect("none")

SpecFraming == InitOpened /\ [][NextFraming]_vars

\* read-timeout changes on an open port
NextTimeout ==
    \/ \E t \in Timeouts, fault \in FaultsOf(os) : SetReadTimeoutCall(t, fault)
    \/ \E fault \in FaultsOf(os) : GetReadTimeout(fault)
    \/ \E call \in TimeoutCalls, fault \in FaultsOf(os) : Configure(call, fault)

SpecTimeout == InitOpened /\ [][NextTimeout]_vars

\* calls that set a rate and nothing else
RateOnlyCalls == {Positional(<<INT2FIX(r)>>) : r \in {9600, 115200, 28800}}

\* calls that give no rate: nil or absent, with and without other fields
NoRateCalls == {Positional(<<>>),
                Positional(<<Qnil, INT2FIX(7)>>),
                WithHash(NoHash),
                WithHash([NoHash EXCEPT !.data_bits = INT2FIX(7)]),
                WithHash([NoHash EXCEPT !.read_timeout = INT2FIX(100)])}

\* an open port whose rate is set, and then operations that give no rate
NextKeepRate ==
    \/ \E call \in RateOnlyCalls \cup NoRateCalls, fault \in FaultsOf(os) : Configure(call, fault)
    \/ \E val \in {NONE, SOFT}, fault \in FaultsOf(os) : SetFlowControlCall(val, fault)
    \/ \E t \in {-1, 100}, fault \in FaultsOf(os) : SetReadTimeoutCall(t, fault)
    \/ \E fault \in FaultsOf(os) : Inspect(fault)

SpecKeepRate == InitOpened /\ [][NextKeepRate]_vars

\* the control lines of an open port
NextLines ==
    \/ \E sig \in Outputs, val \in SignalValues, fault \in LineFaults : SetSignal(sig, val, fault)
    \/ \E fault \in LineFaults : GetLineSignals(fault)
    \/ \E line \in TIOCM : LineChange(line)

SpecLines == InitOpened /\ [][NextLines]_vars

\* ------------------------------------------------------------------------
\* Properties
\* ------------------------------------------------------------------------

Configured == last.op = "set_modem_params"

\* the exceptions raised by the validation of the arguments
ValidationErrors == {"invalid baud rate", "baud rate too high", "unknown baud rate",
                     "unknown character size", "unknown number of stop bits",
                     "unknown parity", "invalid flow control",
                     "Hardware flow control not supported"}

\* the custom-baud state of the port, whichever variant holds it
CustomBaudState(info, cache) == <<info.flags, info.custom_divisor, get_custom_baud_rate_darwin(cache)>>

\* C1: a configure call that fails validation performs no kernel write, and
\* leaves termios and the custom-baud state (driver flag and divisor, cached
\* custom_baud) as they were before the call.
C1_ValidationAllOrNothing ==
    [][(last'.op = "set_modem_params" /\ last'.err \in ValidationErrors)
        => /\ last'.sys = <<>>
           /\ termios' = termios
           /\ CustomBaudState(serial_info', custom_baud') = CustomBaudState(serial_info, custom_baud)]_vars

\* the rate a successful configure call asked for, 0 if it gave none
RequestedRate == IF Configured /\ last.err = OK /\ argc(last.args) > 0 /\ ~NIL_P(data_rate_arg(last.args))
                 THEN FIX2INT(data_rate_arg(last.args)) ELSE 0

\* no custom rate is in force, and this call did not issue one
NoCustomBaud ==
    CASE os = "OS_LINUX" -> serial_info.flags \cap ASYNC_SPD_CUST = {} /\ serial_info.custom_divisor = 0
      [] os = "OS_DARWIN" -> get_custom_baud_rate_darwin(custom_baud) = 0 /\ ~Contains(last.sys, "IOSSIOSPEED")
      [] OTHER -> TRUE

\* C2: after configure(rate = r) with a standard rate r, whatever was
\* configured before, inspect() reports data_rate = r and no custom baud rate
\* is active.
C2_StandardRateReadBack ==
    RequestedRate \in StandardRates(os)
    => /\ \A mp \in InspectNow : mp.data_rate = RequestedRate
       /\ NoCustomBaud

\* what the Custom Baud Strategy's getter is to report for a custom rate
CustomReadBack(r) == IF os = "OS_LINUX"
                     THEN serial_info.baud_base \div (serial_info.baud_base \div r)
                     ELSE r

\* C3: after configure(rate = r) with a custom rate r (not standard, at most
\* the ceiling and the base clock), inspect() reports base / (base / r) on the
\* divisor-based variant and r on the direct-speed variant, never the
\* placeholder speed of the termios field.
C3_CustomRateReadBack ==
    (RequestedRate > 0 /\ RequestedRate \notin StandardRates(os))
    => \A mp \in InspectNow : mp.data_rate = CustomReadBack(RequestedRate)

\* the timeout a successful setReadTimeout call was given
TimeoutSet(t) == last.op = "set_read_timeout" /\ last.err = OK /\ last.args = t

\* C4: setReadTimeout(t) followed by getReadTimeout() returns normalize(t)
\* for t in {-1, 0, 50, 100, 250, 1000}, with normalize(-1) = -1,
\* normalize(0) = 0, normalize(50) = 0, normalize(100) = 100,
\* normalize(250) = 300 and normalize(1000) = 1000.
C4_TimeoutRoundTripAsClaimed ==
    /\ TimeoutSet(-1) => read_timeout_of(termios) = -1
    /\ TimeoutSet(0) => read_timeout_of(termios) = 0
    /\ TimeoutSet(50) => read_timeout_of(termios) = 0
    /\ TimeoutSet(100) => read_timeout_of(termios) = 100
    /\ TimeoutSet(250) => read_timeout_of(termios) = 300
    /\ TimeoutSet(1000) => read_timeout_of(termios) = 1000

\* C4 (amended): the same round trip with normalize(50) = 100: 50 ms is the
\* half unit and (50 + 50) / 100 rounds it up to one unit of 100 ms.
C4_TimeoutRoundTrip ==
    /\ TimeoutSet(-1) => read_timeout_of(termios) = -1
    /\ TimeoutSet(0) => read_timeout_of(termios) = 0
    /\ TimeoutSet(50) => read_timeout_of(termios) = 100
    /\ TimeoutSet(100) => read_timeout_of(termios) = 100
    /\ TimeoutSet(250) => read_timeout_of(termios) = 300
    /\ TimeoutSet(1000) => read_timeout_of(termios) = 1000

C4_Witness == TimeoutSet(250) /\ termios.vtime = 3 /\ termios.vmin = 0

\* a successful configure call that gave data bits and no parity
DataBitsWithoutParity(call) ==
    IF call.use_hash
    THEN ~NIL_P(call.hash.data_bits) /\ NIL_P(call.hash.parity)
    ELSE argc(call) \in {2, 3} /\ ~NIL_P(call.argv[2])

DefaultParity == IF data_bits_of(termios) = 8 THEN NONE ELSE EVEN

\* C5: in every form of the configure call (positional or hash), when
\* data_bits is supplied and parity is not, the parity after the call is NONE
\* if the data bits are now 8 and EVEN if they are 5, 6 or 7.
C5_ParityDefaultAnyForm ==
    (Configured /\ last.err = OK /\ DataBitsWithoutParity(last.args))
    => parity_of(termios) = DefaultParity

\* C5 (amended): in the positional form of the configure call, when data_bits
\* is supplied and the parity argument is omitted, the parity after the call
\* is NONE if the data bits are now 8 and EVEN if they are 5, 6 or 7.
C5_ParityDefaultPositional ==
    (Configured /\ last.err = OK /\ ~last.args.use_hash /\ DataBitsWithoutParity(last.args))
    => parity_of(termios) = DefaultParity

C5_Witness ==
    /\ Configured /\ last.err = OK
    /\ last.args = Positional(<<INT2FIX(9600), INT2FIX(7)>>)
    /\ termios.csize = "CS7" /\ termios.parenb /\ ~termios.parodd

OpenedBy(kind) == last.op = "open" /\ last.args.kind = kind

\* C6: open with an integer selector below 0 or at or above the length of the
\* port-name table (8) fails with "illegal port number"; no table entry is
\* read and no device is opened.
C6_PortIndexInBounds ==
    (OpenedBy("T_FIXNUM") /\ (last.args.v < 0 \/ last.args.v >= NumPorts))
    => /\ last.err = "illegal port number"
       /\ last.ret.port = Qnil
       /\ last.sys = <<>>

RawBaseline(params) == /\ params.oflag = {} /\ params.lflag = {}
                       /\ params.clocal /\ params.cread /\ ~params.hupcl

Reported(word, line) ==
    CASE line = "TIOCM_RTS" -> line_signals(word).rts
      [] line = "TIOCM_DTR" -> line_signals(word).dtr
      [] line = "TIOCM_CTS" -> line_signals(word).cts
      [] line = "TIOCM_DSR" -> line_signals(word).dsr
      [] line = "TIOCM_CD" -> line_signals(word).dcd
      [] OTHER -> line_signals(word).ri

\* C8: a successful setSignal(which, v), which in {RTS, DTR} and v in {0, 1},
\* makes getLineSignals() report which = v and leaves the other five signals
\* as they were read at the start of the call; a value other than 0 or 1
\* fails with "invalid value" and writes nothing (no TIOCMSET).
C8_SetSignalFrame ==
    [][\A sig \in Outputs, val \in SignalValues, fault \in LineFaults :
         SetSignal(sig, val, fault)
         => /\ last'.err = OK
               => /\ val \in {0, 1}
                  /\ Reported(status', sig) = val
                  /\ \A line \in TIOCM \ {sig} : Reported(status', line) = Reported(status, line)
            /\ (val \notin {0, 1} /\ fault # "TIOCMGET")
               => (last'.err = "invalid value" /\ last'.sys = <<>> /\ status' = status)]_vars

C8_Witness ==
    /\ last.op = "set_signal" /\ last.err = OK
    /\ last.args = [sig |-> "TIOCM_RTS", val |-> 0]
    /\ last.sys = <<"TIOCMSET">>
    /\ status = {"TIOCM_DTR", "TIOCM_CTS", "TIOCM_CD"}

\* C9: when the commit (tcsetattr) of a configure call fails, the prior
\* configuration is still in effect: termios, the driver's custom-baud flag
\* and divisor and the cached custom baud value equal their values before
\* the call.
C9_CommitFailureKeepsPrior ==
    [][(last'.op = "set_modem_params" /\ last'.err = "Errno(tcsetattr)")
        => /\ termios' = termios
           /\ CustomBaudState(serial_info', custom_baud') = CustomBaudState(serial_info, custom_baud)]_vars

\* the framing bits of termios, field by field
Bits(params, field) ==
    CASE field = "data_bits" -> <<params.csize>>
      [] field = "stop_bits" -> <<params.cstopb>>
      [] field = "parity" -> <<params.parenb, params.parodd>>
      [] OTHER -> <<params.crtscts, params.iflag>>

FramingFields == {"data_bits", "stop_bits", "parity", "flow_control"}

Position(field) == CASE field = "data_bits" -> 2
                     [] field = "stop_bits" -> 3
                     [] field = "parity" -> 4
                     [] OTHER -> 5

\* the call gives no value for the field: the hash has no such key, or the
\* positional argument is omitted
NoValue(call, field) ==
    IF call.use_hash THEN NIL_P(call.hash[field]) ELSE argc(call) < Position(field)

\* the call gives nil for the field: the hash has no such key (or nil under
\* it), or the positional argument is passed as nil
NilValue(call, field) ==
    IF call.use_hash THEN NIL_P(call.hash[field])
    ELSE argc(call) >= Position(field) /\ NIL_P(call.argv[Position(field)])

\* C10: in a configure call, for each of data bits, stop bits, parity and
\* flow control, if the caller supplied no value (omitted trailing positional
\* argument, or absent hash key) the field's termios bits after the call equal
\* those before the call.
C10_OmittedFieldUntouched ==
    [][\A field \in FramingFields :
         (last'.op = "set_modem_params" /\ argc(last'.args) > 0 /\ NoValue(last'.args, field))
         => Bits(termios', field) = Bits(termios, field)]_vars

\* C10 (amended): the field's termios bits after the call equal those before
\* it if the hash has no key for the field, if the positional argument is
\* passed as nil, or (flow control only) if the positional argument is
\* omitted; an omitted trailing positional data_bits, stop_bits or parity is
\* not left alone: a successful call sets it to the default 8, 1, and NONE for
\* 8 data bits or EVEN otherwise.
C10_NilFieldUntouched ==
    [][(last'.op = "set_modem_params" /\ argc(last'.args) > 0)
        => /\ \A field \in FramingFields :
                (\/ NilValue(last'.args, field)
                 \/ (field = "flow_control" /\ NoValue(last'.args, field)))
                => Bits(termios', field) = Bits(termios, field)
           /\ (last'.err = OK /\ ~last'.args.use_hash)
                => /\ argc(last'.args) < 2 => data_bits_of(termios') = 8
                   /\ argc(last'.args) < 3 => stop_bits_of(termios') = 1
                   /\ argc(last'.args) < 4
                        => parity_of(termios') = IF data_bits_of(termios') = 8 THEN NONE ELSE EVEN]_vars

C10_Witness ==
    /\ Configured /\ last.err = OK
    /\ last.args = WithHash([NoHash EXCEPT !.data_bits = INT2FIX(7)])
    /\ termios.csize = "CS7" /\ termios.cstopb /\ termios.parenb /\ termios.parodd
    /\ termios.iflag = IXFLAGS

\* the timeout a successful setReadTimeout call, or the read_timeout field of
\* a successful configure call, was given
GivenTimeout ==
    IF last.op = "set_read_timeout" /\ last.err = OK THEN INT2FIX(last.args)
    ELSE IF Configured /\ last.err = OK /\ argc(last.args) > 0 THEN read_timeout_arg(last.args)
    ELSE Qnil

\* the (VTIME, VMIN) pair of the termios in force
Encoding == <<termios.vtime, termios.vmin>>

\* C11: for every positive timeout t, given to setReadTimeout or as the
\* read_timeout field of configure, the stored encoding is
\* VTIME = (t + 50) / 100 with VMIN = 0 and the getter returns
\* ((t + 50) / 100) * 100; the encodings of a negative, a zero and a positive
\* timeout are pairwise distinct, so a positive t is never read back as -1.
C11_PositiveTimeoutEncoding ==
    \A t \in GivenTimeout :
        /\ t < 0 => Encoding = <<0, 0>>
        /\ t = 0 => Encoding = <<0, 1>>
        /\ t > 0 => /\ Encoding = <<(t + 50) \div 100, 0>>
                    /\ Encoding \notin {<<0, 0>>, <<0, 1>>}
                    /\ read_timeout_of(termios) = ((t + 50) \div 100) * 100
                    /\ read_timeout_of(termios) # -1

\* the data_rate inspect() reports of a port in the given state
DataRates(params, info, cache) ==
    {mp.data_rate : mp \in get_modem_params(params, info, cache, "none", os)}

\* a call that supplies no baud rate
NoRateGiven(call) ==
    \/ call.op \in {"set_flow_control", "set_read_timeout"}
    \/ /\ call.op = "set_modem_params"
       /\ (argc(call.args) = 0 \/ NIL_P(data_rate_arg(call.args)))

\* C12: after any history, a configure call whose rate is nil or absent, a
\* setFlowControl call or a setReadTimeout call leaves inspect().data_rate
\* equal to its value before the call, on the divisor-based and on the
\* direct-speed variant, whether the active rate was standard or custom.
C12_NoRateNoRateChange ==
    [][NoRateGiven(last')
        => DataRates(termios', serial_info', custom_baud') = DataRates(termios, serial_info, custom_baud)]_vars

====
